---- MODULE Spec2Model ----
(***************************************************************************)
(* BinaryVectorList (BinaryVectorList.h): a container whose every member   *)
(* function forwards to the single data member                              *)
(*     std::vector<value_type> m_vTvector;                                  *)
(* The model keeps, per container, what std::vector keeps: the address of   *)
(* its one storage buffer, the number of constructed elements, the          *)
(* allocated capacity, and the elements themselves.                         *)
(***************************************************************************)
EXTENDS Integers, Sequences, FiniteSets, TLC

\* ---------------------------------------------------------------- bounds
MaxSize == 3        \* no operation grows a container beyond this size
MaxOps == 4         \* pushes counted by the push/pop history
MaxPairSize == 2    \* size of each container when two containers are exercised together

\* ------------------------------------------------------------- constants
Containers == {"a", "b"}
Values == {1, 2}
NullBuf == 0                                \* data pointer of a vector without storage
Bufs == 1 .. (Cardinality(Containers) + 1)  \* addresses the allocator can hand out
NoRet == -1                                 \* the call returned nothing
SizeModulus == 65536                        \* size_type is unsigned: arithmetic wraps (width narrowed to 16 bits)

VARIABLES vec, last, pc, hist, iter
vars == <<vec, last, pc, hist, iter>>

Max(x, y) == IF x >= y THEN x ELSE y
Min(x, y) == IF x <= y THEN x ELSE y

\* ------------------------------------------------------------ observers
size(r) == r.size
capacity(r) == r.cap
empty(r) == r.size = 0

\* std::vector<value_type> m_vTvector after default construction
EmptyVector == [elems |-> <<>>, size |-> 0, cap |-> 0, buf |-> NullBuf]

\* addresses not occupied by a live buffer
FreeBufs(V) == Bufs \ {V[d].buf : d \in Containers}

\* The capacities a reallocation may choose when `need` elements must fit:
\* size + max(size, added), max(1.5 * capacity, need), max(2 * capacity, need).
NewCapacities(r, need) ==
    { Max(need, 2 * r.size), Max(need, r.cap + (r.cap \div 2)), Max(need, 2 * r.cap) }

\* Make room for `need` elements.  Storage that is large enough is kept;
\* otherwise one new buffer is allocated while the old one is still live,
\* the elements are moved into it and the old buffer is released.
Grow(r, need, F) ==
    IF need <= r.cap
    THEN {r}
    ELSE { [r EXCEPT !.cap = nc, !.buf = nb] : nc \in NewCapacities(r, need), nb \in F }

\* ------------------------------------------------- std::vector operations
\* slip: the new element is placed in front of the others
vector_push_back_prepend(r, v, F) ==
    { [g EXCEPT !.elems = <<v>> \o g.elems, !.size = g.size + 1] : g \in Grow(r, r.size + 1, F) }

vector_push_back(r, v, F) ==
    { [g EXCEPT !.elems = Append(g.elems, v), !.size = g.size + 1] : g \in Grow(r, r.size + 1, F) }

\* variant: the storage is released as soon as the last element is popped
vector_pop_back_release(r) ==
    IF r.size = 1
    THEN [elems |-> <<>>, size |-> 0, cap |-> 0, buf |-> NullBuf]
    ELSE [r EXCEPT !.elems = SubSeq(r.elems, 1, Len(r.elems) - 1), !.size = r.size - 1]

\* precondition: the vector is not empty
vector_pop_back(r) ==
    [r EXCEPT !.elems = SubSeq(r.elems, 1, Len(r.elems) - 1), !.size = r.size - 1]

\* pop_back() on an empty vector is undefined: the end pointer is decremented
\* past the start, so the size wraps around
vector_pop_back_empty(r) ==
    [r EXCEPT !.size = (r.size - 1) % SizeModulus]

\* slip: the range check lets n == size() through
vector_at_off_by_one(r, n) ==
    IF n > r.size
    THEN [err |-> "OutOfRange", ret |-> NoRet]
    ELSE [err |-> "none", ret |-> IF n < r.size THEN r.elems[n + 1] ELSE 0]

vector_at(r, n) ==
    IF n >= r.size
    THEN [err |-> "OutOfRange", ret |-> NoRet]
    ELSE [err |-> "none", ret |-> r.elems[n + 1]]

\* move_backward: for i = hi down to lo + 1, s[i] := s[i - 1]
RECURSIVE MoveBackward(_, _, _)
MoveBackward(s, lo, i) ==
    IF i <= lo THEN s ELSE MoveBackward([s EXCEPT ![i] = s[i - 1]], lo, i - 1)

\* move: for i = lo up to hi - 1, s[i] := s[i + 1]
RECURSIVE MoveForward(_, _, _)
MoveForward(s, i, hi) ==
    IF i >= hi THEN s ELSE MoveForward([s EXCEPT ![i] = s[i + 1]], i + 1, hi)

\* slip: v is assigned at p without shifting the tail
InsertElems_no_shift(s, p, v) ==
    IF p = Len(s)
    THEN Append(s, v)
    ELSE [Append(s, s[Len(s)]) EXCEPT ![p + 1] = v]

\* elements after a single-element insert before index p (0-based, p <= Len(s)):
\* the last element is copied into the new slot, the tail is shifted right
\* one element at a time, then v is assigned at p
InsertElems(s, p, v) ==
    IF p = Len(s)
    THEN Append(s, v)
    ELSE LET opened == Append(s, s[Len(s)])
             shifted == MoveBackward(opened, p + 1, Len(s))
         IN  [shifted EXCEPT ![p + 1] = v]

\* slip: the last element is destroyed without shifting the tail
EraseElems_drop_last(s, p) == SubSeq(s, 1, Len(s) - 1)

\* elements after erasing index p (0-based, p < Len(s)): the tail is shifted
\* left one element at a time and the last element is destroyed
EraseElems(s, p) ==
    LET shifted == MoveForward(s, p + 1, Len(s))
    IN  SubSeq(shifted, 1, Len(s) - 1)

vector_insert(r, p, v, F) ==
    { [g EXCEPT !.elems = InsertElems(g.elems, p, v), !.size = g.size + 1] : g \in Grow(r, r.size + 1, F) }

vector_erase(r, p) ==
    [r EXCEPT !.elems = EraseElems(r.elems, p), !.size = r.size - 1]

\* slip: growing fills the whole vector with val
vector_resize_refill(r, n, val, F) ==
    IF n <= r.size
    THEN { [r EXCEPT !.elems = SubSeq(r.elems, 1, n), !.size = n] }
    ELSE { [g EXCEPT !.elems = [i \in 1 .. n |-> val], !.size = n] : g \in Grow(r, n, F) }

\* resize(n, val): erase at the end when shrinking, append copies of val
\* (after at most one reallocation) when growing
vector_resize(r, n, val, F) ==
    IF n <= r.size
    THEN { [r EXCEPT !.elems = SubSeq(r.elems, 1, n), !.size = n] }
    ELSE { [g EXCEPT !.elems = [i \in 1 .. n |-> IF i <= Len(g.elems) THEN g.elems[i] ELSE val],
                     !.size = n] : g \in Grow(r, n, F) }

\* variant: each call gives back half of the capacity
vector_shrink_to_fit_halve(r, F) ==
    IF r.cap = r.size
    THEN {r}
    ELSE { [r EXCEPT !.cap = Max(r.size, r.cap \div 2), !.buf = nb] : nb \in F }

\* shrink_to_fit(): nothing to do when capacity() == size(); an empty vector
\* gives up its buffer; otherwise the elements move to a new buffer of
\* exactly size() elements
vector_shrink_to_fit(r, F) ==
    IF r.cap = r.size
    THEN {r}
    ELSE IF r.size = 0
         THEN { [r EXCEPT !.cap = 0, !.buf = NullBuf] }
         ELSE { [r EXCEPT !.cap = r.size, !.buf = nb] : nb \in F }

\* variant: clear() also releases the storage
vector_clear_release(r) == [elems |-> <<>>, size |-> 0, cap |-> 0, buf |-> NullBuf]

\* clear(): destroys the elements; the storage is kept
vector_clear(r) == [r EXCEPT !.elems = <<>>, !.size = 0]

\* slip: copy assignment instead of an exchange
vector_swap_copy(V, c, d) == [V EXCEPT ![c] = V[d]]

\* swap(): the two vectors exchange buffer, size and capacity
vector_swap(V, c, d) == [V EXCEPT ![c] = V[d], ![d] = V[c]]

\* operator[](n): element n, unchecked
subscript(r, n) == r.elems[n + 1]

\* the loop of operator==: for (i = 0; i < size; ++i), leaving with false at
\* the first i with !(lhs[i] == rhs[i])
RECURSIVE EqualLoop(_, _, _, _)
EqualLoop(lhs, rhs, i, n) ==
    IF i >= n
    THEN TRUE
    ELSE IF subscript(lhs, i) = subscript(rhs, i)
         THEN EqualLoop(lhs, rhs, i + 1, n)
         ELSE FALSE

\* slip: the loop stops one element early
operator_eq_short(lhs, rhs) ==
    IF size(lhs) = size(rhs) THEN EqualLoop(lhs, rhs, 0, size(lhs) - 1) ELSE FALSE

\* operator==: bResult stays false unless the sizes agree
operator_eq(lhs, rhs) ==
    IF size(lhs) = size(rhs) THEN EqualLoop(lhs, rhs, 0, size(lhs)) ELSE FALSE

\* operator!=
operator_ne(lhs, rhs) == ~operator_eq(lhs, rhs)

\* the loop of operator<: for (i = 0; (i < lhsize) && (i < rhsize); ++i),
\* left by break at the first i where the elements differ; yields the i and
\* the bResult the loop ends with
RECURSIVE LessLoop(_, _, _, _, _)
LessLoop(lhs, rhs, i, lhsize, rhsize) ==
    IF ~(i < lhsize /\ i < rhsize)
    THEN [i |-> i, bResult |-> FALSE]
    ELSE IF subscript(lhs, i) < subscript(rhs, i)
         THEN [i |-> i, bResult |-> TRUE]
         ELSE IF subscript(rhs, i) < subscript(lhs, i)
              THEN [i |-> i, bResult |-> FALSE]
              ELSE LessLoop(lhs, rhs, i + 1, lhsize, rhsize)

\* the values the name `lhssize` of line 942 may denote: operator< declares
\* lhsize and rhsize, never lhssize, so the name is bound, if at all, to
\* something outside the function
ForeignSizes == 0 .. MaxSize

\* operator<, with lhssize the value that name denotes
operator_lt(lhs, rhs, lhssize) ==
    LET lhsize == size(lhs)
        rhsize == size(rhs)
        loop == LessLoop(lhs, rhs, 0, lhsize, rhsize)
    IN  IF loop.i = lhsize \/ loop.i = rhsize
        THEN lhssize < rhsize
        ELSE loop.bResult

\* operator<=: !(rhs < lhs)
operator_le(lhs, rhs, lhssize) == ~operator_lt(rhs, lhs, lhssize)

\* operator>: rhs < lhs
operator_gt(lhs, rhs, lhssize) == operator_lt(rhs, lhs, lhssize)

\* operator>=: !(lhs < rhs)
operator_ge(lhs, rhs, lhssize) == ~operator_lt(lhs, rhs, lhssize)

\* where element i of the vector is stored: data pointer + i
Location(r, i) == <<r.buf, i>>

\* operator[](n) and at(n) read m_vTvector[n]: the storage is the vector's
\* one buffer, block 0, and element n lies at offset n of it
StoredAt(r, n) == [block |-> 0, offset |-> Location(r, n)[2]]

\* ------------------------------------- the Index Mapper of the design
\* The source has no block schedule; these three are the design's mapping
\* for the schedule 1, 1, 2, 2, 4, 4, 8, 8, ...
blockCapacityFor(blockIndex) == 2 ^ (blockIndex \div 2)

RECURSIVE cumulativeCapacity(_)
cumulativeCapacity(blockIndex) ==
    IF blockIndex < 0
    THEN 0
    ELSE cumulativeCapacity(blockIndex - 1) + blockCapacityFor(blockIndex)

RECURSIVE LocateFrom(_, _)
LocateFrom(logicalIndex, b) ==
    IF logicalIndex < cumulativeCapacity(b)
    THEN [err |-> "none", block |-> b, offset |-> logicalIndex - cumulativeCapacity(b - 1)]
    ELSE LocateFrom(logicalIndex, b + 1)

locate(logicalIndex, totalSize) ==
    IF logicalIndex >= totalSize
    THEN [err |-> "OutOfRange", block |-> 0, offset |-> 0]
    ELSE LocateFrom(logicalIndex, 0)

\* ------------------------------------------------------------------ state
\* the last call made: member, receiver c, other container d, index or size
\* argument n, value argument v, the receiver's size() and capacity() when
\* it was called, the error raised and the value or iterator index returned
Call(op, c, d, n, v, err, ret) ==
    [op |-> op, c |-> c, d |-> d, n |-> n, v |-> v,
     osz |-> size(vec[c]), ocap |-> capacity(vec[c]), err |-> err, ret |-> ret]

\* no iterator is held: iterator is std::vector<value_type>::iterator, a
\* pointer into the vector's buffer; idx remembers the index it was taken at
NoIter == [held |-> FALSE, c |-> "a", ptr |-> <<NullBuf, 0>>, idx |-> 0]

EmptyHist == [pushes |-> 0, pops |-> 0, pushed |-> <<>>, mixed |-> FALSE, capAtPush |-> 0]

Init ==
    /\ vec = [c \in Containers |-> EmptyVector]
    /\ last = Call("ctor", "a", "a", 0, 0, "none", NoRet)
    /\ pc = "running"
    /\ hist = EmptyHist
    /\ iter = NoIter

\* hist counts what the push/pop history does; the other operations leave it alone
Step(c, r, call) ==
    /\ vec' = [vec EXCEPT ![c] = r]
    /\ last' = call
    /\ pc' = "running"

\* An operation whose behaviour is undefined: the build either stops the
\* process (a checked build) or carries on with the corrupted vector r.
Undefined(c, r, call) ==
    /\ last' = call
    /\ \/ pc' = "aborted" /\ vec' = vec
       \/ pc' = "undefined" /\ vec' = [vec EXCEPT ![c] = r]

\* ------------------------------------------------- BinaryVectorList members
PushBackStep(c, v) ==
    /\ pc = "running"
    /\ size(vec[c]) < MaxSize
    /\ \E r \in vector_push_back(vec[c], v, FreeBufs(vec)) :
          Step(c, r, Call("push_back", c, c, 0, v, "none", NoRet))

PopBackStep(c) ==
    /\ pc = "running"
    /\ IF empty(vec[c])
       THEN Undefined(c, vector_pop_back_empty(vec[c]), Call("pop_back", c, c, 0, 0, "none", NoRet))
       ELSE Step(c, vector_pop_back(vec[c]), Call("pop_back", c, c, 0, 0, "none", NoRet))

push_back(c, v) == PushBackStep(c, v) /\ UNCHANGED <<hist, iter>>

pop_back(c) == PopBackStep(c) /\ UNCHANGED <<hist, iter>>

at(c, n) ==
    /\ pc = "running"
    /\ LET res == vector_at(vec[c], n)
       IN  Step(c, vec[c], Call("at", c, c, n, 0, res.err, res.ret))
    /\ UNCHANGED <<hist, iter>>

\* insert(position, val) with position == begin() + p; returns begin() + p
insert(c, p, v) ==
    /\ pc = "running"
    /\ size(vec[c]) < MaxSize
    /\ p <= size(vec[c])
    /\ \E r \in vector_insert(vec[c], p, v, FreeBufs(vec)) :
          Step(c, r, Call("insert", c, c, p, v, "none", p))
    /\ UNCHANGED <<hist, iter>>

\* push_front(val) is insert(begin(), val)
push_front(c, v) ==
    /\ pc = "running"
    /\ size(vec[c]) < MaxSize
    /\ \E r \in vector_insert(vec[c], 0, v, FreeBufs(vec)) :
          Step(c, r, Call("push_front", c, c, 0, v, "none", NoRet))
    /\ UNCHANGED <<hist, iter>>

\* erase(position) with position == begin() + p, p < size(); returns begin() + p
erase(c, p) ==
    /\ pc = "running"
    /\ p < size(vec[c])
    /\ Step(c, vector_erase(vec[c], p), Call("erase", c, c, p, 0, "none", p))
    /\ UNCHANGED <<hist, iter>>

\* pop_front() is erase(begin()); on an empty container begin() == end() and
\* erasing it is undefined in the same way as pop_back()
pop_front(c) ==
    /\ pc = "running"
    /\ IF empty(vec[c])
       THEN Undefined(c, vector_pop_back_empty(vec[c]), Call("pop_front", c, c, 0, 0, "none", NoRet))
       ELSE Step(c, vector_erase(vec[c], 0), Call("pop_front", c, c, 0, 0, "none", NoRet))
    /\ UNCHANGED <<hist, iter>>

resize(c, n, val) ==
    /\ pc = "running"
    /\ \E r \in vector_resize(vec[c], n, val, FreeBufs(vec)) :
          Step(c, r, Call("resize", c, c, n, val, "none", NoRet))
    /\ UNCHANGED <<hist, iter>>

clear(c) ==
    /\ pc = "running"
    /\ Step(c, vector_clear(vec[c]), Call("clear", c, c, 0, 0, "none", NoRet))
    /\ UNCHANGED <<hist, iter>>

shrink_to_fit(c) ==
    /\ pc = "running"
    /\ \E r \in vector_shrink_to_fit(vec[c], FreeBufs(vec)) :
          Step(c, r, Call("shrink_to_fit", c, c, 0, 0, "none", NoRet))
    /\ UNCHANGED <<hist, iter>>

Next ==
    \/ \E v \in Values : push_back("a", v)
    \/ pop_back("a")
    \/ \E n \in 0 .. MaxSize + 1 : at("a", n)
    \/ \E p \in 0 .. MaxSize, v \in Values : insert("a", p, v)
    \/ \E v \in Values : push_front("a", v)
    \/ \E p \in 0 .. MaxSize : erase("a", p)
    \/ pop_front("a")
    \/ \E n \in 0 .. MaxSize, v \in Values : resize("a", n, v)
    \/ clear("a")
    \/ shrink_to_fit("a")

Spec == Init /\ [][Next]_vars

\* ------------------------------------------- two containers: swap
swap(c, d) ==
    /\ pc = "running"
    /\ vec' = vector_swap(vec, c, d)
    /\ last' = Call("swap", c, d, 0, 0, "none", NoRet)
    /\ UNCHANGED <<pc, hist, iter>>

\* the free function swap(bvlLeft, bvlRight) calls bvlLeft.swap(bvlRight)
free_swap(c, d) ==
    /\ pc = "running"
    /\ vec' = vector_swap(vec, c, d)
    /\ last' = Call("free_swap", c, d, 0, 0, "none", NoRet)
    /\ UNCHANGED <<pc, hist, iter>>

NextPair ==
    \/ \E c \in Containers, v \in Values : size(vec[c]) < MaxPairSize /\ push_back(c, v)
    \/ \E c \in Containers : pop_back(c)
    \/ \E c \in Containers, d \in Containers : swap(c, d)
    \/ \E c \in Containers, d \in Containers : free_swap(c, d)

SpecPair == Init /\ [][NextPair]_vars

\* ------------------------------- push_back / pop_back with their history
\* hist records, for container "a": the calls made so far, the values pushed
\* and not popped, whether a push followed a pop, and capacity() after the
\* latest push
counted_push_back(v) ==
    /\ hist.pushes < MaxOps
    /\ PushBackStep("a", v)
    /\ hist' = [hist EXCEPT !.pushes = @ + 1,
                            !.pushed = Append(@, v),
                            !.mixed = @ \/ hist.pops > 0,
                            !.capAtPush = capacity(vec'["a"])]
    /\ UNCHANGED iter

\* pop_back is only called on a non-empty container here
counted_pop_back ==
    /\ ~empty(vec["a"])
    /\ PopBackStep("a")
    /\ hist' = [hist EXCEPT !.pops = @ + 1,
                            !.pushed = SubSeq(@, 1, Len(@) - 1)]
    /\ UNCHANGED iter

NextStack ==
    \/ \E v \in Values : counted_push_back(v)
    \/ counted_pop_back

SpecStack == Init /\ [][NextStack]_vars

\* --------------------------------------------- allocation that can fail
\* slip: the size is advanced before the new storage is allocated
AllocationOutcomes_size_first(r, need, results) ==
    { [err |-> "none", vec |-> x] : x \in results }
        \cup (IF need > r.cap
              THEN { [err |-> "AllocationFailure", vec |-> [r EXCEPT !.size = need]] }
              ELSE {})

\* The outcomes of an operation that needs room for `need` elements: its
\* results, and, when new storage must be allocated, the failure of that
\* allocation.  The vector allocates before it touches an element or its
\* size, and no member of BinaryVectorList catches: std::bad_alloc reaches
\* the caller with the vector as it was.
AllocationOutcomes(r, need, results) ==
    { [err |-> "none", vec |-> x] : x \in results }
        \cup (IF need > r.cap
              THEN { [err |-> "AllocationFailure", vec |-> r] }
              ELSE {})

push_back_or_throw(c, v) ==
    /\ pc = "running"
    /\ size(vec[c]) < MaxSize
    /\ \E o \in AllocationOutcomes(vec[c], size(vec[c]) + 1,
                                   vector_push_back(vec[c], v, FreeBufs(vec))) :
          Step(c, o.vec, Call("push_back", c, c, 0, v, o.err, NoRet))
    /\ UNCHANGED <<hist, iter>>

insert_or_throw(c, p, v) ==
    /\ pc = "running"
    /\ size(vec[c]) < MaxSize
    /\ p <= size(vec[c])
    /\ \E o \in AllocationOutcomes(vec[c], size(vec[c]) + 1,
                                   vector_insert(vec[c], p, v, FreeBufs(vec))) :
          Step(c, o.vec, Call("insert", c, c, p, v, o.err, IF o.err = "none" THEN p ELSE NoRet))
    /\ UNCHANGED <<hist, iter>>

resize_or_throw(c, n, val) ==
    /\ pc = "running"
    /\ \E o \in AllocationOutcomes(vec[c], n, vector_resize(vec[c], n, val, FreeBufs(vec))) :
          Step(c, o.vec, Call("resize", c, c, n, val, o.err, NoRet))
    /\ UNCHANGED <<hist, iter>>

NextAlloc ==
    \/ \E v \in Values : push_back_or_throw("a", v)
    \/ \E p \in 0 .. MaxSize, v \in Values : insert_or_throw("a", p, v)
    \/ \E n \in 0 .. MaxSize, v \in Values : resize_or_throw("a", n, v)
    \/ \E p \in 0 .. MaxSize : erase("a", p)
    \/ clear("a")
    \/ shrink_to_fit("a")

SpecAlloc == Init /\ [][NextAlloc]_vars

\* ---------------------------------------- iterators across push_back
\* begin() + i: m_vTvector.begin() is the address of the buffer, the sum
\* is the address of element i
begin_plus(c, i) ==
    /\ pc = "running"
    /\ i < size(vec[c])
    /\ iter' = [held |-> TRUE, c |-> c, ptr |-> Location(vec[c], i), idx |-> i]
    /\ last' = Call("begin", c, c, i, 0, "none", i)
    /\ UNCHANGED <<vec, pc, hist>>

\* what *it reads: the element, when it still points into the vector's live
\* buffer; anything at all when the buffer it points into has been released
Dereference(it, r) ==
    IF it.ptr[1] = r.buf /\ it.ptr[2] < r.size
    THEN { r.elems[it.ptr[2] + 1] }
    ELSE Values \cup {0}

dereference ==
    /\ pc = "running"
    /\ iter.held
    /\ \E x \in Dereference(iter, vec[iter.c]) :
          last' = Call("dereference", iter.c, iter.c, iter.idx, 0, "none", x)
    /\ UNCHANGED <<vec, pc, hist, iter>>

NextIter ==
    \/ \E v \in Values : push_back("a", v)
    \/ \E i \in 0 .. MaxSize : begin_plus("a", i)
    \/ dereference

SpecIter == Init /\ [][NextIter]_vars

\* ================================================================ properties

\* the elements of s with v inserted before index p (0-based)
InsertedAt(s, p, v) == SubSeq(s, 1, p) \o <<v>> \o SubSeq(s, p + 1, Len(s))

\* the elements of s without the one at index p (0-based)
RemovedAt(s, p) == SubSeq(s, 1, p) \o SubSeq(s, p + 2, Len(s))

\* the vectors k push_back(val) calls can produce from r
RECURSIVE PushBackTimes(_, _, _)
PushBackTimes(r, k, val) ==
    IF k = 0
    THEN {r}
    ELSE UNION { PushBackTimes(g, k - 1, val) : g \in vector_push_back(r, val, Bufs \ {r.buf}) }

\* the vector k pop_back() calls produce from r
RECURSIVE PopBackTimes(_, _)
PopBackTimes(r, k) ==
    IF k = 0 THEN r ELSE PopBackTimes(vector_pop_back(r), k - 1)

\* C1: after any sequence of push_back and pop_back calls on an initially
\* empty container (pop_back only on a non-empty one), size() is the number
\* of pushes minus the number of pops and at(i) is the i-th value pushed and
\* not popped, for every i < size().
C1_StackOrder ==
    LET r == vec["a"]
    IN  /\ size(r) = hist.pushes - hist.pops
        /\ \A i \in 0 .. size(r) - 1 :
              vector_at(r, i) = [err |-> "none", ret |-> hist.pushed[i + 1]]

C1_Witness ==
    /\ hist.pushes >= 3
    /\ hist.pops >= 1
    /\ size(vec["a"]) >= 2
    /\ vec["a"].elems[1] # vec["a"].elems[2]

\* C2: at(n) with n >= size() raises OutOfRange, returns no element and
\* leaves the container as it was.
C2_AtOutOfRange ==
    [][ (last'.op = "at" /\ last'.n >= size(vec[last'.c]))
        => (last'.err = "OutOfRange" /\ last'.ret = NoRet /\ vec' = vec) ]_vars

C2_Witness ==
    /\ last.op = "at"
    /\ last.n = size(vec[last.c])
    /\ size(vec[last.c]) >= 1

\* C3: pop_back() on a container of size 0 raises EmptyContainer and leaves
\* the container empty.
C3_PopBackEmptyFails ==
    (last.op = "pop_back" /\ last.osz = 0)
        => (last.err = "EmptyContainer" /\ pc = "running" /\ size(vec[last.c]) = 0)

\* C4: insert(begin() + p, v) with p <= size() turns the sequence s into
\* s[0..p-1] ++ [v] ++ s[p..], the size grows by one, and the iterator
\* returned designates index p; push_front(v) is the case p = 0.
C4_InsertShiftsRight ==
    [][ (last'.op \in {"insert", "push_front"})
        => LET c == last'.c
               p == last'.n
           IN  /\ size(vec'[c]) = size(vec[c]) + 1
               /\ vec'[c].elems = InsertedAt(vec[c].elems, p, last'.v)
               /\ vector_at(vec'[c], p).ret = last'.v
               /\ \A i \in 0 .. p - 1 : vector_at(vec'[c], i) = vector_at(vec[c], i)
               /\ \A i \in p .. size(vec[c]) - 1 : vector_at(vec'[c], i + 1) = vector_at(vec[c], i)
               /\ last'.op = "insert" => last'.ret = p ]_vars

C4_Witness ==
    /\ last.op = "insert"
    /\ last.n >= 1
    /\ last.n < last.osz
    /\ size(vec[last.c]) = last.osz + 1

\* C5: erase(begin() + p) with p < size() turns the sequence s into
\* s[0..p-1] ++ s[p+1..], the size shrinks by one, and the iterator returned
\* designates index p, where the element that followed the erased one now is
\* (or end()); pop_front() is the case p = 0.
C5_EraseShiftsLeft ==
    [][ (last'.op \in {"erase", "pop_front"} /\ last'.n < size(vec[last'.c]))
        => LET c == last'.c
               p == last'.n
           IN  /\ size(vec'[c]) = size(vec[c]) - 1
               /\ vec'[c].elems = RemovedAt(vec[c].elems, p)
               /\ \A i \in 0 .. p - 1 : vector_at(vec'[c], i) = vector_at(vec[c], i)
               /\ \A i \in p + 1 .. size(vec[c]) - 1 : vector_at(vec'[c], i - 1) = vector_at(vec[c], i)
               /\ last'.op = "erase" => last'.ret = p ]_vars

C5_Witness ==
    /\ last.op = "erase"
    /\ last.n >= 1
    /\ last.n < size(vec[last.c])
    /\ size(vec[last.c]) = last.osz - 1

\* C6: resize(n, val) leaves size() == n, keeps the first min(oldSize, n)
\* elements, fills the indices from oldSize up to n with val, and ends with
\* the same size and elements as n - oldSize push_back(val) calls (growing)
\* or oldSize - n pop_back() calls (shrinking).
C6_ResizeAsPushPop ==
    [][ (last'.op = "resize")
        => LET old == vec[last'.c]
               new == vec'[last'.c]
               n == last'.n
           IN  /\ size(new) = n
               /\ \A i \in 0 .. Min(size(old), n) - 1 : vector_at(new, i) = vector_at(old, i)
               /\ \A i \in size(old) .. n - 1 : vector_at(new, i) = [err |-> "none", ret |-> last'.v]
               /\ IF n >= size(old)
                  THEN \A x \in PushBackTimes(old, n - size(old), last'.v) :
                          x.elems = new.elems /\ x.size = new.size
                  ELSE LET x == PopBackTimes(old, size(old) - n)
                       IN  x.elems = new.elems /\ x.size = new.size ]_vars

C6_Witness ==
    /\ last.op = "resize"
    /\ last.osz >= 1
    /\ last.n >= last.osz + 2
    /\ size(vec[last.c]) = last.n
    /\ vec[last.c].elems[1] # last.v

\* C7: a.swap(b) and swap(a, b) exchange the two containers' sequences and
\* sizes (the storage changes owner, no element is copied, added or lost),
\* and swapping again restores both containers.
C7_SwapExchanges ==
    [][ (last'.op \in {"swap", "free_swap"})
        => LET c == last'.c
               d == last'.d
           IN  /\ vec'[c] = vec[d]
               /\ vec'[d] = vec[c]
               /\ \A e \in Containers \ {c, d} : vec'[e] = vec[e]
               /\ vector_swap(vec', c, d) = vec ]_vars

C7_Witness ==
    /\ last.op = "swap"
    /\ last.c # last.d
    /\ last.osz >= 1
    /\ size(vec[last.d]) = last.osz
    /\ size(vec[last.c]) > last.osz

C10_GrowthKeepsLocations ==
    [][ (last'.op \in {"push_back", "insert"} /\ size(vec[last'.c]) = capacity(vec[last'.c]))
        => LET c == last'.c
               kept == IF last'.op = "insert" THEN last'.n ELSE size(vec[c])
           IN  \A i \in 0 .. kept - 1 :
                  /\ Location(vec'[c], i) = Location(vec[c], i)
                  /\ vector_at(vec'[c], i) = vector_at(vec[c], i) ]_vars

\* C11: an iterator obtained at index i (begin() + i) stays valid across
\* push_back calls, also those that allocate: it still designates the
\* storage of the element at index i and dereferences to that element.
C11_IteratorSurvivesPushBack ==
    iter.held
        => /\ iter.ptr = Location(vec[iter.c], iter.idx)
           /\ last.op = "dereference" => last.ret = vec[iter.c].elems[iter.idx + 1]

\* C12: operator== is true exactly when the sizes are equal and
\* lhs[i] == rhs[i] for every i < size(); operator!= is its negation
\* (for the containers of a running program).
C12_EqualityElementwise ==
    pc = "running" => \A c \in Containers, d \in Containers :
        LET same == /\ size(vec[c]) = size(vec[d])
                    /\ \A i \in 0 .. size(vec[c]) - 1 : vec[c].elems[i + 1] = vec[d].elems[i + 1]
        IN  /\ operator_eq(vec[c], vec[d]) = same
            /\ operator_ne(vec[c], vec[d]) = ~same

C12_Witness ==
    /\ size(vec["a"]) = size(vec["b"])
    /\ size(vec["a"]) >= 2
    /\ vec["a"].elems[1] = vec["b"].elems[1]
    /\ vec["a"].elems[2] # vec["b"].elems[2]
    /\ ~operator_eq(vec["a"], vec["b"])

\* s is lexicographically less than t
LexLess(s, t) ==
    \/ \E k \in 1 .. Min(Len(s), Len(t)) :
          /\ \A j \in 1 .. k - 1 : s[j] = t[j]
          /\ s[k] < t[k]
    \/ /\ Len(s) < Len(t)
       /\ \A j \in 1 .. Len(s) : s[j] = t[j]

\* C13: operator< is the lexicographic order on the element sequences: a
\* proper prefix is less than the longer container, equal containers are not
\* less than each other.
C13_LessIsLexicographic ==
    pc = "running" => \A c \in Containers, d \in Containers, x \in ForeignSizes :
        operator_lt(vec[c], vec[d], x) = LexLess(vec[c].elems, vec[d].elems)

\* exactly one of the three holds
ExactlyOne(p, q, r) == (p /\ ~q /\ ~r) \/ (~p /\ q /\ ~r) \/ (~p /\ ~q /\ r)

\* C14: the six relational operators are mutually consistent: exactly one of
\* a < b, a == b, b < a holds; a > b is b < a; a <= b is not (b < a);
\* a >= b is not (a < b); a != b is not (a == b).
C14_RelationalConsistent ==
    pc = "running" => \A c \in Containers, d \in Containers, x \in ForeignSizes :
        LET a == vec[c]
            b == vec[d]
        IN  /\ ExactlyOne(operator_lt(a, b, x), operator_eq(a, b), operator_lt(b, a, x))
            /\ operator_gt(a, b, x) = operator_lt(b, a, x)
            /\ operator_le(a, b, x) = ~operator_lt(b, a, x)
            /\ operator_ge(a, b, x) = ~operator_lt(a, b, x)
            /\ operator_ne(a, b) = ~operator_eq(a, b)

\* C15: shrink_to_fit() never changes size() or an element, and calling it
\* a second time leaves the capacity() the first call left.
C15_ShrinkToFitIdempotent ==
    [][ (last'.op = "shrink_to_fit")
        => LET old == vec[last'.c]
               once == vec'[last'.c]
           IN  /\ size(once) = size(old)
               /\ once.elems = old.elems
               /\ \A i \in 0 .. size(old) - 1 : vector_at(once, i) = vector_at(old, i)
               /\ \A twice \in vector_shrink_to_fit(once, Bufs \ {once.buf}) :
                     /\ capacity(twice) = capacity(once)
                     /\ size(twice) = size(once)
                     /\ twice.elems = once.elems ]_vars

C15_Witness ==
    /\ last.op = "shrink_to_fit"
    /\ size(vec[last.c]) >= 1
    /\ last.ocap > capacity(vec[last.c])

\* C16: when a block allocation fails during push_back, insert or resize,
\* the error reaches the caller and size and elements are exactly what they
\* were before the call.
C16_AllocationFailureNoEffect ==
    [][ (last'.err = "AllocationFailure")
        => /\ last'.op \in {"push_back", "insert", "resize"}
           /\ last'.ret = NoRet
           /\ size(vec'[last'.c]) = size(vec[last'.c])
           /\ vec'[last'.c].elems = vec[last'.c].elems
           /\ vec' = vec ]_vars

C16_Witness ==
    /\ last.err = "AllocationFailure"
    /\ last.op = "insert"
    /\ last.n >= 1
    /\ last.n < last.osz
    /\ size(vec[last.c]) = last.osz

\* the mapping round-trips on the indices below n
LocateRoundTrips(n) ==
    \A i \in 0 .. n - 1 :
        LET l == locate(i, n)
        IN  /\ l.err = "none"
            /\ l.offset < blockCapacityFor(l.block)
            /\ cumulativeCapacity(l.block - 1) + l.offset = i
            /\ \A j \in 0 .. n - 1 : j # i => locate(j, n) # l

\* C17: for every valid index i, locate yields a (block, offset) within the
\* block's capacity from which the cumulative capacity recovers i, distinct
\* indices get distinct pairs, and operator[] / at reach element i through
\* this mapping.
C17_AccessThroughLocate ==
    pc = "running" =>
        LET r == vec["a"]
        IN  /\ LocateRoundTrips(size(r))
            /\ \A i \in 0 .. size(r) - 1 :
                  LET l == locate(i, size(r))
                  IN  StoredAt(r, i) = [block |-> l.block, offset |-> l.offset]

\* the capacity the schedule gives a container of n elements: the cumulative
\* capacity of the fewest blocks that hold n
CanonicalCapacity(n) ==
    IF n = 0 THEN 0 ELSE cumulativeCapacity(locate(n - 1, n).block)

\* C18: after any sequence of push_back, pop_back, insert, erase, resize and
\* clear the storage has the canonical shape of its size: size() <=
\* capacity(), and capacity() is the cumulative schedule capacity of the
\* blocks the size needs, so it depends on size() alone.
C18_CanonicalShape ==
    pc = "running" =>
        /\ size(vec["a"]) <= capacity(vec["a"])
        /\ capacity(vec["a"]) = CanonicalCapacity(size(vec["a"]))

====
